---- MODULE Spec2Model ----
(***************************************************************************)
(* Rich media types of wandb/sdk/rich_types: Table, JoinedTable, Video,    *)
(* VideoSequence and the frame-tiling routine prepare_data.                *)
(*                                                                         *)
(* The base classes Media / MediaSequence and the path slot live in        *)
(* rich_types/media.py; the definitions that stand for them are marked     *)
(* "media.py" below.                                                       *)
(***************************************************************************)
EXTENDS Integers, Sequences, FiniteSets, TLC

VARIABLES table,   \* the Table instance: columns, data, format, path, artifact, runs
          nested,  \* the Video held in the table's media cells
          tlog,    \* the last Table call: operation, outcome, value returned
          tdesc,   \* per artifact, the descriptor of the last bind since the table changed
          joined,  \* the JoinedTable instance
          jlog,    \* the calls made on the JoinedTable, oldest first
          video,   \* the Video under construction / last constructed
          vlog,    \* the encoder calls of the last array construction
          vseq,    \* the VideoSequence instance
          slog,    \* the last VideoSequence call
          prep     \* prepare_data: its input shape and its result

vars == <<table, nested, tlog, tdesc, joined, jlog, video, vlog, vseq, slog, prep>>

----------------------------------------------------------------------------
(* Bounds and value sets                                                   *)

MaxRows == 2        \* rows a table may hold
MaxInitRows == 1    \* rows handed to the constructor
MaxSaves == 2       \* path.save invocations followed on one instance

None == "None"
Artifacts == {"a1", "a2"}
Runs == {"r1", "r2"}

Prim(n) == [kind |-> "prim", v |-> n]
MediaCell(id) == [kind |-> "media", v |-> id]
ListCell(s) == [kind |-> "list", v |-> s]
DescCell(d) == [kind |-> "desc", v |-> d]
TagCell(s) == [kind |-> "tag", v |-> s]

\* rows offered to the constructor and to add_data, of lengths 0..4
RowPool ==
    { <<>>,
      <<Prim(0)>>, <<MediaCell("V1")>>, <<ListCell(<<Prim(1), MediaCell("V1")>>)>>,
      <<Prim(0), MediaCell("V1")>>, <<MediaCell("V1"), Prim(1)>>,
      <<Prim(0), Prim(1), MediaCell("V1")>>,
      <<Prim(0), Prim(0), Prim(0), Prim(0)>> }

\* the columns argument: None, or a list of labels
NoColumns == [isNone |-> TRUE, list |-> <<>>]
Columns(labels) == [isNone |-> FALSE, list |-> labels]
ColumnInputs == {NoColumns, Columns(<<"a">>), Columns(<<"a", "b">>), Columns(<<"a", "1.5">>)}

\* no descriptor / no file content
NoDesc == [_type |-> "none"]
NoFile == [kind |-> "none"]
FileOf(k) == [kind |-> k]

RECURSIVE SeqsUpTo(_, _)
SeqsUpTo(S, n) ==
    IF n = 0 THEN {<<>>}
    ELSE LET shorter == SeqsUpTo(S, n - 1)
         IN  shorter \cup {Append(s, x) : s \in {q \in shorter : Len(q) = n - 1}, x \in S}

DataInputs ==
    {[kind |-> "none", rows |-> <<>>, columns |-> <<>>],
     [kind |-> "other", rows |-> <<>>, columns |-> <<>>]}
    \cup {[kind |-> k, rows |-> rs, columns |-> <<>>] :
            k \in {"list", "numpy"}, rs \in SeqsUpTo(RowPool, MaxInitRows)}
    \cup {[kind |-> "pandas", rows |-> rs, columns |-> <<"a", "b">>] :
            rs \in SeqsUpTo(RowPool, MaxInitRows)}

\* str.lower() on the format names that occur
Lower(s) ==
    CASE s = "TABLE.JSON" -> "table.json"
      [] s = "GIF" -> "gif"
      [] s = "MP4" -> "mp4"
      [] s = "AVI" -> "avi"
      [] OTHER -> s

----------------------------------------------------------------------------
(* media.py: the path slot and the Media base class                        *)

\* a fresh path slot
NewPathSlot == [finalized |-> FALSE, intact |-> FALSE, file |-> NoFile, calls |-> 0]

\* path.save(...) entered: a finalized slot refuses
PathSaveEnter(slot) == IF slot.finalized THEN "StateError" ELSE "ok"

\* the scope of path.save(...) left: the content is moved into the managed
\* location whether or not the write inside the scope succeeded
PathSaveExit(slot, content, written) ==
    [slot EXCEPT !.finalized = TRUE, !.intact = written, !.file = content]

\* Media.__init__
MediaInit == [format |-> None, path |-> NewPathSlot, artifact |-> None, runs |-> {}]

\* Media.bind_to_run: registers the backing file with the run
MediaBindToRun(m, run) == [m EXCEPT !.runs = @ \cup {run}]

\* Media.bind_to_artifact: sets the artifact reference, returns the base descriptor
MediaBindToArtifact(m, artifact, objType) ==
    [obj |-> [m EXCEPT !.artifact = artifact], ret |-> [_type |-> objType]]

\* Media.to_json: the base descriptor of a materialized object
MediaToJson(m, objType) ==
    IF m.format = None \/ ~m.path.finalized
    THEN [err |-> "StateError", ret |-> NoDesc]
    ELSE [err |-> "ok", ret |-> [_type |-> objType, path |-> m.path.file]]

----------------------------------------------------------------------------
(* video.py: Video as a nested table cell                                  *)

VIDEO_OBJ_TYPE == "video-file"

\* Video.bind_to_artifact
VideoBindToArtifact(v, artifact) ==
    LET base == MediaBindToArtifact(v, artifact, VIDEO_OBJ_TYPE)
        withCaption == IF v.caption # None /\ v.caption # ""
                       THEN [_type |-> base.ret._type, caption |-> v.caption]
                       ELSE base.ret
    IN  [obj |-> base.obj, ret |-> withCaption]

\* Video.to_json
VideoToJson(v) ==
    LET base == MediaToJson(v, VIDEO_OBJ_TYPE)
    IN  IF base.err # "ok" THEN base
        ELSE [err |-> "ok",
              ret |-> [_type |-> base.ret._type, path |-> base.ret.path,
                       caption |-> v.caption]]

----------------------------------------------------------------------------
(* table.py: Table                                                         *)

TABLE_DEFAULT_FORMAT == "TABLE.JSON"
TABLE_OBJ_TYPE == "table-file"
DefaultColumns == <<"Input", "Output", "Expected">>

\* isinstance(c, (str, int)): "1.5" stands for a float label
IsStrOrInt(c) == c # "1.5"

\* add_data without its length assertion
AddDataUnchecked(t, row) ==
    [obj |-> [t EXCEPT !.data = Append(@, row)], err |-> "ok"]

\* Table.add_data
AddData(t, row) ==
    IF Len(row) = Len(t.columns)
    THEN [obj |-> [t EXCEPT !.data = Append(@, row)], err |-> "ok"]
    ELSE [obj |-> t, err |-> "AssertionError"]

RECURSIVE AddAll(_, _)
\* the loop of _from_list: add_data row by row, the first failure ends it
AddAll(t, rows) ==
    IF rows = <<>> THEN [obj |-> t, err |-> "ok"]
    ELSE LET r == AddData(t, Head(rows))
         IN  IF r.err # "ok" THEN r ELSE AddAll(r.obj, Tail(rows))

\* Table._from_list
FromList(t, data, columns) ==
    LET cols == IF columns.isNone THEN DefaultColumns ELSE columns.list
    IN  IF \E i \in 1..Len(cols) : ~IsStrOrInt(cols[i])
        THEN [obj |-> t, err |-> "AssertionError"]
        ELSE AddAll([t EXCEPT !.columns = cols], data)

\* Table._from_numpy
FromNumpy(t, data, columns) == FromList(t, data.rows, columns)

\* Table._from_pandas
FromPandas(t, data) == FromList(t, data.rows, Columns(data.columns))

\* Table.__init__
TableInit(data, columns) ==
    LET t == [columns |-> <<>>, data |-> <<>>, format |-> MediaInit.format,
              path |-> MediaInit.path, artifact |-> MediaInit.artifact,
              runs |-> MediaInit.runs]
    IN  CASE data.kind = "none" -> FromList(t, <<>>, columns)
          [] data.kind = "numpy" -> FromNumpy(t, data, columns)
          [] data.kind = "pandas" -> FromPandas(t, data)
          [] data.kind = "list" -> FromList(t, data.rows, columns)
          [] OTHER -> [obj |-> t, err |-> "ValueError"]

RECURSIVE SaveSerialize(_)
\* serialize of Table.save: a media cell becomes its class name
SaveSerialize(obj) ==
    CASE obj.kind = "list" ->
            ListCell([i \in 1..Len(obj.v) |-> SaveSerialize(obj.v[i])])
      [] obj.kind = "media" -> TagCell("Video")
      [] OTHER -> obj

\* what Table.save writes
SaveContent(t) ==
    [kind |-> "table", columns |-> t.columns,
     data |-> [i \in 1..Len(t.data) |-> SaveSerialize(ListCell(t.data[i])).v]]

RECURSIVE BindSerialize(_, _, _)
\* serialize of Table.bind_to_artifact: a media cell becomes its own
\* bind_to_artifact descriptor
BindSerialize(obj, v, artifact) ==
    CASE obj.kind = "list" ->
            ListCell([i \in 1..Len(obj.v) |-> BindSerialize(obj.v[i], v, artifact)])
      [] obj.kind = "media" -> DescCell(VideoBindToArtifact(v, artifact).ret)
      [] OTHER -> obj

RECURSIVE HasMedia(_)
HasMedia(obj) ==
    CASE obj.kind = "list" -> \E i \in 1..Len(obj.v) : HasMedia(obj.v[i])
      [] obj.kind = "media" -> TRUE
      [] OTHER -> FALSE

\* bind_to_artifact writing the class-name tag of Table.save into the descriptor
TableBindToArtifactTagged(t, v, artifact) ==
    LET base == MediaBindToArtifact(t, artifact, TABLE_OBJ_TYPE)
        data == [i \in 1..Len(t.data) |-> SaveSerialize(ListCell(t.data[i])).v]
    IN  [obj |-> base.obj,
         nested |-> v,
         ret |-> [_type |-> base.ret._type, columns |-> t.columns,
                  ncols |-> Len(t.columns), data |-> data, nrows |-> Len(data)]]

\* Table.bind_to_artifact
TableBindToArtifact(t, v, artifact) ==
    LET base == MediaBindToArtifact(t, artifact, TABLE_OBJ_TYPE)
        data == [i \in 1..Len(t.data) |->
                    [j \in 1..Len(t.data[i]) |-> BindSerialize(t.data[i][j], v, artifact)]]
        bound == \E i \in 1..Len(t.data) : HasMedia(ListCell(t.data[i]))
    IN  [obj |-> base.obj,
         nested |-> IF bound THEN VideoBindToArtifact(v, artifact).obj ELSE v,
         ret |-> [_type |-> base.ret._type, columns |-> t.columns,
                  ncols |-> Len(t.columns), data |-> data, nrows |-> Len(data)]]

\* Table.bind_to_run; writeOk: whether the write of Table.save succeeds
TableBindToRun(t, run, writeOk) ==
    LET t1 == [t EXCEPT !.format = Lower(TABLE_DEFAULT_FORMAT),
                        !.path.calls = @ + 1]
    IN  IF PathSaveEnter(t1.path) # "ok"
        THEN [obj |-> t1, err |-> PathSaveEnter(t1.path)]
        ELSE IF ~writeOk
        THEN [obj |-> [t1 EXCEPT !.path = PathSaveExit(@, NoFile, FALSE)], err |-> "IOError"]
        ELSE [obj |-> MediaBindToRun(
                        [t1 EXCEPT !.path = PathSaveExit(@, SaveContent(t1), TRUE)], run),
              err |-> "ok"]

\* Table.to_json
TableToJson(t) ==
    LET base == MediaToJson(t, TABLE_OBJ_TYPE)
    IN  IF base.err # "ok" THEN base
        ELSE [err |-> "ok",
              ret |-> [_type |-> base.ret._type, path |-> base.ret.path,
                       ncols |-> Len(t.columns), nrows |-> Len(t.data)]]

----------------------------------------------------------------------------
(* The Table under its callers                                             *)

Idle == "idle"
NoRow == <<>>
NoLog == [op |-> "new", err |-> "ok", ret |-> NoDesc, prev |-> NoDesc,
          arg |-> NoRow, pre |-> TableInit([kind |-> "none", rows |-> <<>>,
                                            columns |-> <<>>], NoColumns).obj]

NestedVideo == [format |-> "gif", path |-> PathSaveExit(NewPathSlot, FileOf("clip"), TRUE),
                artifact |-> None, runs |-> {}, caption |-> "cat"]

InitTable ==
    /\ \E d \in DataInputs, c \in ColumnInputs :
          /\ TableInit(d, c).err = "ok"
          /\ table = TableInit(d, c).obj
          /\ tlog = [NoLog EXCEPT !.pre = TableInit(d, c).obj]
    /\ nested = NestedVideo
    /\ tdesc = [a \in Artifacts |-> NoDesc]
    /\ joined = Idle /\ jlog = Idle /\ video = Idle /\ vlog = Idle
    /\ vseq = Idle /\ slog = Idle /\ prep = Idle

TAddData(row) ==
    /\ Len(table.data) < MaxRows
    /\ LET r == AddData(table, row)
       IN  /\ table' = r.obj
           /\ tlog' = [op |-> "add_data", err |-> r.err, ret |-> NoDesc,
                       prev |-> NoDesc, arg |-> row, pre |-> table]
           /\ tdesc' = IF r.err = "ok" THEN [a \in Artifacts |-> NoDesc] ELSE tdesc
    /\ UNCHANGED <<nested, joined, jlog, video, vlog, vseq, slog, prep>>

TBindToRun(run, writeOk) ==
    /\ table.path.calls < MaxSaves
    /\ LET r == TableBindToRun(table, run, writeOk)
       IN  /\ table' = r.obj
           /\ tlog' = [op |-> "bind_to_run", err |-> r.err, ret |-> NoDesc,
                       prev |-> NoDesc, arg |-> NoRow, pre |-> table]
    /\ UNCHANGED <<nested, tdesc, joined, jlog, video, vlog, vseq, slog, prep>>

TBindToArtifact(artifact) ==
    /\ LET r == TableBindToArtifact(table, nested, artifact)
       IN  /\ table' = r.obj
           /\ nested' = r.nested
           /\ tlog' = [op |-> "bind_to_artifact", err |-> "ok", ret |-> r.ret,
                       prev |-> tdesc[artifact], arg |-> NoRow, pre |-> table]
           /\ tdesc' = [tdesc EXCEPT ![artifact] = r.ret]
    /\ UNCHANGED <<joined, jlog, video, vlog, vseq, slog, prep>>

TToJson ==
    /\ LET r == TableToJson(table)
       IN  tlog' = [op |-> "to_json", err |-> r.err, ret |-> r.ret,
                    prev |-> NoDesc, arg |-> NoRow, pre |-> table]
    /\ UNCHANGED <<table, nested, tdesc, joined, jlog, video, vlog, vseq, slog, prep>>

NextTable ==
    \/ \E row \in RowPool : TAddData(row)
    \/ \E run \in Runs, writeOk \in BOOLEAN : TBindToRun(run, writeOk)
    \/ \E artifact \in Artifacts : TBindToArtifact(artifact)
    \/ TToJson

SpecTable == InitTable /\ [][NextTable]_vars

----------------------------------------------------------------------------
(* Claims about Table                                                      *)

\* C1: every stored row is as long as the column list, and an add_data whose
\* row has another length fails and leaves the stored rows unchanged.
C1_RowLengths ==
    /\ \A i \in 1..Len(table.data) : Len(table.data[i]) = Len(table.columns)
    /\ (tlog.op = "add_data" /\ Len(tlog.arg) # Len(tlog.pre.columns))
          => (tlog.err = "AssertionError" /\ table.data = tlog.pre.data)

C1_Witness ==
    /\ tlog.op = "add_data" /\ tlog.err = "AssertionError"
    /\ Len(table.data) >= 1
    /\ Len(tlog.arg) > Len(table.columns)

\* C2: the path slot's save is invoked at most once per instance, and a
\* bind_to_run on an already materialized table succeeds without invoking it.
C2_RebindReuses ==
    /\ table.path.intact => table.path.calls <= 1
    /\ (tlog.op = "bind_to_run" /\ tlog.pre.path.finalized /\ tlog.pre.path.intact)
          => (tlog.err = "ok" /\ table.path = tlog.pre.path)

RECURSIVE ExpectedCell(_, _)
\* a cell as the artifact descriptor shows it: a media cell by the descriptor
\* its own bind_to_artifact returns, a plain list cell by cell, the rest as is
ExpectedCell(c, artifact) ==
    IF c.kind = "media"
    THEN DescCell(VideoBindToArtifact(nested, artifact).ret)
    ELSE IF c.kind = "list"
    THEN ListCell([k \in 1..Len(c.v) |-> ExpectedCell(c.v[k], artifact)])
    ELSE c

\* C8: a second bind_to_artifact with the same artifact on an unmodified table
\* returns the same descriptor; the descriptor holds the columns, ncols, nrows,
\* and the row matrix with each media cell replaced by its own descriptor; the
\* call leaves columns and rows as they were.
C8_ArtifactDescriptor ==
    tlog.op = "bind_to_artifact" =>
        /\ tlog.prev # NoDesc => tlog.ret = tlog.prev
        /\ tlog.ret.columns = table.columns
        /\ tlog.ret.ncols = Len(table.columns)
        /\ tlog.ret.nrows = Len(table.data)
        /\ Len(tlog.ret.data) = Len(table.data)
        /\ \A i \in 1..Len(table.data) :
              /\ Len(tlog.ret.data[i]) = Len(table.data[i])
              /\ \A j \in 1..Len(table.data[i]) :
                    tlog.ret.data[i][j] = ExpectedCell(table.data[i][j], table.artifact)
        /\ table.columns = tlog.pre.columns
        /\ table.data = tlog.pre.data

C8_Witness ==
    /\ tlog.op = "bind_to_artifact"
    /\ tlog.prev # NoDesc
    /\ Len(table.data) = 2
    /\ \E i \in 1..2 : \E j \in 1..Len(table.data[i]) : table.data[i][j].kind = "list"
    /\ nested.artifact = table.artifact

\* C9: after a failed write inside bind_to_run the table has neither format
\* nor path, and a serialization attempted on it ends in a state error.
C9_FailedWriteLeavesUnset ==
    (table.path.finalized /\ ~table.path.intact) =>
        /\ table.format = None
        /\ tlog.op = "to_json" => tlog.err = "StateError"

----------------------------------------------------------------------------
(* table.py: JoinedTable                                                   *)

MaxCalls == 3       \* calls followed on one JoinedTable
MaxTables == 3      \* tables handed to the JoinedTable constructor

JOINED_OBJ_TYPE == "joined-table"
JOINED_OBJ_ARTIFACT_TYPE == "joined-table"

\* JoinedTable.__init__: tables are referred to by name
JoinedInit(tables, join_keys) ==
    [tables |-> tables, join_keys |-> join_keys, format |-> MediaInit.format,
     path |-> MediaInit.path, artifact |-> MediaInit.artifact, runs |-> MediaInit.runs]

\* JoinedTable.bind_to_run
JoinedBindToRun(j, run) == j

\* to_json without its check of the artifact reference
JoinedToJsonUnchecked(j) ==
    [err |-> "ok",
     ret |-> [_type |-> JOINED_OBJ_TYPE, artifact_path |-> j.artifact]]

\* JoinedTable.to_json
JoinedToJson(j) ==
    IF j.artifact = None
    THEN [err |-> "ValueError", ret |-> NoDesc]
    ELSE [err |-> "ok",
          ret |-> [_type |-> JOINED_OBJ_TYPE, artifact_path |-> j.artifact]]

\* JoinedTable._extract_table
ExtractTable(tbl, artifact, index) == ""

\* JoinedTable.bind_to_artifact
JoinedBindToArtifact(j, artifact) ==
    LET tables == [i \in 1..Len(j.tables) |-> ExtractTable(j.tables[i], artifact, i - 1)]
    IN  IF Len(tables) < 2
        THEN [obj |-> j, err |-> "IndexError", ret |-> NoDesc]
        ELSE [obj |-> j, err |-> "ok",
              ret |-> [_type |-> JOINED_OBJ_ARTIFACT_TYPE, join_keys |-> j.join_keys,
                       table1 |-> tables[1], table2 |-> tables[2]]]

TableNames == {"t1", "t2"}
JoinKeyInputs == {<<"id">>, <<"id", "step">>}

InitJoined ==
    /\ \E ts \in SeqsUpTo(TableNames, MaxTables), k \in JoinKeyInputs :
          joined = JoinedInit(ts, k)
    /\ jlog = <<>>
    /\ table = Idle /\ nested = Idle /\ tlog = Idle /\ tdesc = Idle
    /\ video = Idle /\ vlog = Idle /\ vseq = Idle /\ slog = Idle /\ prep = Idle

JBindToRun(run) ==
    /\ Len(jlog) < MaxCalls
    /\ joined' = JoinedBindToRun(joined, run)
    /\ jlog' = Append(jlog, [op |-> "bind_to_run", arg |-> run, err |-> "ok",
                             ret |-> NoDesc])
    /\ UNCHANGED <<table, nested, tlog, tdesc, video, vlog, vseq, slog, prep>>

JBindToArtifact(artifact) ==
    /\ Len(jlog) < MaxCalls
    /\ LET r == JoinedBindToArtifact(joined, artifact)
       IN  /\ joined' = r.obj
           /\ jlog' = Append(jlog, [op |-> "bind_to_artifact", arg |-> artifact,
                                    err |-> r.err, ret |-> r.ret])
    /\ UNCHANGED <<table, nested, tlog, tdesc, video, vlog, vseq, slog, prep>>

JToJson ==
    /\ Len(jlog) < MaxCalls
    /\ LET r == JoinedToJson(joined)
       IN  jlog' = Append(jlog, [op |-> "to_json", arg |-> None, err |-> r.err,
                                 ret |-> r.ret])
    /\ UNCHANGED <<joined, table, nested, tlog, tdesc, video, vlog, vseq, slog, prep>>

NextJoined ==
    \/ \E run \in Runs : JBindToRun(run)
    \/ \E artifact \in Artifacts : JBindToArtifact(artifact)
    \/ JToJson

SpecJoined == InitJoined /\ [][NextJoined]_vars

\* C5: a to_json on a JoinedTable that no bind_to_artifact call preceded ends
\* in the error of an unbound object and returns no descriptor, whatever
\* bind_to_run calls came before.
C5_UnboundToJsonFails ==
    \A i \in 1..Len(jlog) :
        (jlog[i].op = "to_json"
            /\ \A k \in 1..(i - 1) : jlog[k].op # "bind_to_artifact")
        => (jlog[i].err = "ValueError" /\ jlog[i].ret = NoDesc)

C5_Witness ==
    /\ Len(jlog) >= 2
    /\ jlog[Len(jlog)].op = "to_json" /\ jlog[Len(jlog)].err = "ValueError"
    /\ \A k \in 1..(Len(jlog) - 1) : jlog[k].op = "bind_to_run"

\* C6: once bind_to_artifact(artifact) has returned its descriptor, the
\* JoinedTable refers to that artifact and a following to_json succeeds.
C6_BoundToJsonSucceeds ==
    \A i \in 1..Len(jlog) :
        (jlog[i].op = "bind_to_artifact" /\ jlog[i].err = "ok") =>
            /\ i = Len(jlog) => joined.artifact = jlog[i].arg
            /\ \A k \in (i + 1)..Len(jlog) :
                  jlog[k].op = "to_json" => jlog[k].err = "ok"

----------------------------------------------------------------------------
(* video.py: prepare_data                                                  *)

MaxBatch == 9       \* largest batch size of an input array
MaxDim == 2         \* largest time, channel, height, width of an input array

RECURSIVE BitLength(_)
\* int.bit_length()
BitLength(n) == IF n = 0 THEN 0 ELSE 1 + BitLength(n \div 2)

RECURSIVE BitAnd(_, _)
\* the & of two non-negative ints
BitAnd(a, b) ==
    IF a = 0 \/ b = 0 THEN 0
    ELSE (a % 2) * (b % 2) + 2 * BitAnd(a \div 2, b \div 2)

\* is_power2
IsPower2(num) == num # 0 /\ BitAnd(num, num - 1) = 0

\* n_rows = 2 ** ((b.bit_length() - 1) // 2), b the batch size before padding
NRows(b) == 2 ^ ((BitLength(b) - 1) \div 2)

\* len_addition for every batch size, a power of two included
LenAdditionAlways(b) == 2 ^ BitLength(b) - b

\* len_addition, the frames concatenated to the batch
LenAddition(b) == IF ~IsPower2(b) THEN 2 ^ BitLength(b) - b ELSE 0

\* prepare_data on an array of the given shape (values are not followed):
\* the frames added, the grid, and the shape of the array returned
PrepareData(shape) ==
    IF Len(shape) < 4
    THEN [err |-> "ValueError", pad |-> 0, n_rows |-> 0, n_cols |-> 0, shape |-> <<>>]
    ELSE LET s5 == IF Len(shape) = 4 THEN <<1>> \o shape ELSE shape
             b == s5[1]
             t == s5[2]
             c == s5[3]
             h == s5[4]
             w == s5[5]
             pad == LenAddition(b)
             batch == b + pad
             n_rows == NRows(b)
             n_cols == batch \div n_rows
         IN  IF n_rows * n_cols # batch
             THEN [err |-> "ValueError", pad |-> pad, n_rows |-> n_rows,
                   n_cols |-> n_cols, shape |-> <<>>]
             ELSE [err |-> "ok", pad |-> pad, n_rows |-> n_rows, n_cols |-> n_cols,
                   shape |-> <<t, n_rows * h, n_cols * w, c>>]

Dims == 1..MaxDim

\* shapes of 3, 4 and 5 dimensions; a batch holds at least one element
ShapeInputs ==
    {<<t, h, w>> : t \in Dims, h \in Dims, w \in Dims}
    \cup {<<t, c, h, w>> : t \in Dims, c \in Dims, h \in Dims, w \in Dims}
    \cup {<<b, t, c, h, w>> : b \in 1..MaxBatch, t \in Dims, c \in Dims,
                              h \in Dims, w \in Dims}

NoResult == [err |-> "none", pad |-> 0, n_rows |-> 0, n_cols |-> 0, shape |-> <<>>]

InitPrepare ==
    /\ \E shape \in ShapeInputs : prep = [data |-> shape, called |-> FALSE, out |-> NoResult]
    /\ table = Idle /\ nested = Idle /\ tlog = Idle /\ tdesc = Idle
    /\ joined = Idle /\ jlog = Idle /\ video = Idle /\ vlog = Idle
    /\ vseq = Idle /\ slog = Idle

CallPrepareData ==
    /\ ~prep.called
    /\ prep' = [prep EXCEPT !.called = TRUE, !.out = PrepareData(prep.data)]
    /\ UNCHANGED <<table, nested, tlog, tdesc, joined, jlog, video, vlog, vseq, slog>>

NextPrepare == CallPrepareData

SpecPrepare == InitPrepare /\ [][NextPrepare]_vars

\* the smallest power of two that is at least b
NextPowerOfTwo(b) ==
    CHOOSE p \in {2 ^ k : k \in 0..BitLength(b)} :
        /\ p >= b
        /\ \A q \in {2 ^ k : k \in 0..BitLength(b)} : q >= b => p <= q

\* floor(log2(n)) for n >= 1
FloorLog2(n) == CHOOSE k \in 0..n : 2 ^ k <= n /\ n < 2 ^ (k + 1)

\* the batch size of a 4- or 5-dimensional input
BatchOf(shape) == IF Len(shape) = 4 THEN 1 ELSE shape[1]

\* padding to the next power of two and the shape (t, rows*h, cols*w, c)
PaddingAndShape ==
    LET b == BatchOf(prep.data)
        n == Len(prep.data)
        P == NextPowerOfTwo(b)
    IN  /\ prep.out.err = "ok"
        /\ prep.out.pad = P - b
        /\ IsPower2(b) => prep.out.pad = 0
        /\ prep.out.n_cols * prep.out.n_rows = P
        /\ prep.out.shape = <<prep.data[n - 3], prep.out.n_rows * prep.data[n - 1],
                              prep.out.n_cols * prep.data[n], prep.data[n - 2]>>

\* C4 as stated: the batch is padded to the next power of two P, the grid has
\* rows = 2^floor(log2(P)/2) and cols = P/rows, and the result has the shape
\* (t, rows*h, cols*w, c).
C4_GridFromPaddedBatch ==
    (prep.called /\ Len(prep.data) >= 4) =>
        /\ PaddingAndShape
        /\ prep.out.n_rows = 2 ^ (FloorLog2(NextPowerOfTwo(BatchOf(prep.data))) \div 2)

\* C4 amended: as above, with rows = 2^floor(floor(log2(b))/2) taken from the
\* batch size b before padding.
C4_GridFromGivenBatch ==
    (prep.called /\ Len(prep.data) >= 4) =>
        /\ PaddingAndShape
        /\ prep.out.n_rows = 2 ^ (FloorLog2(BatchOf(prep.data)) \div 2)

C4_Witness ==
    /\ prep.called
    /\ prep.data = <<5, 2, 1, 2, 2>>
    /\ prep.out.pad = 3 /\ prep.out.n_rows = 2 /\ prep.out.n_cols = 4
    /\ prep.out.shape = <<2, 4, 8, 1>>

----------------------------------------------------------------------------
(* video.py: Video                                                         *)

VIDEO_DEFAULT_FORMAT == "GIF"
SUPPORTED_FORMATS == {"mp4", "webm", "gif", "ogg"}

\* the three call shapes of the encoder, in the order of the try blocks
EncoderCalls(format) ==
    IF format = "gif"
    THEN <<"write_gif(clip, path)",
           "clip.write_gif(path, verbose, proggres_bar)",
           "clip.write_gif(path, verbose)">>
    ELSE <<"clip.write_videofile(path, logger)",
           "clip.write_videofile(path, verbose, proggres_bar)",
           "clip.write_videofile(path, verbose)">>

\* the try blocks with `except Exception` in place of `except TypeError`
EncodeCatchAll(format, outcomes) ==
    LET calls == EncoderCalls(format)
    IN  IF outcomes[1] = "ok"
        THEN [attempts |-> <<calls[1]>>, err |-> "ok"]
        ELSE IF outcomes[2] = "ok"
        THEN [attempts |-> <<calls[1], calls[2]>>, err |-> "ok"]
        ELSE [attempts |-> <<calls[1], calls[2], calls[3]>>, err |-> outcomes[3]]

\* the nested try / except TypeError blocks of from_numpy; outcomes[i] is what
\* the i-th call shape does when called: "ok", "TypeError" or another error
Encode(format, outcomes) ==
    LET calls == EncoderCalls(format)
    IN  IF outcomes[1] # "TypeError"
        THEN [attempts |-> <<calls[1]>>, err |-> outcomes[1]]
        ELSE IF outcomes[2] # "TypeError"
        THEN [attempts |-> <<calls[1], calls[2]>>, err |-> outcomes[2]]
        ELSE [attempts |-> <<calls[1], calls[2], calls[3]>>, err |-> outcomes[3]]

NoAttempts == [attempts |-> <<>>, err |-> "none"]

\* the object before __init__ has run a branch
NewVideo ==
    [state |-> "new", format |-> MediaInit.format,
     path |-> MediaInit.path,
     artifact |-> MediaInit.artifact, runs |-> MediaInit.runs, caption |-> None]

\* Video.from_buffer; writeOk: whether writing the buffer out succeeds
VideoFromBuffer(v, format, writeOk) ==
    LET fmt == Lower(IF format = None \/ format = "" THEN VIDEO_DEFAULT_FORMAT ELSE format)
        v1 == [v EXCEPT !.format = fmt, !.path.calls = @ + 1]
    IN  IF PathSaveEnter(v1.path) # "ok"
        THEN [obj |-> v1, err |-> PathSaveEnter(v1.path), enc |-> NoAttempts]
        ELSE [obj |-> [v1 EXCEPT !.path = PathSaveExit(@, IF writeOk THEN FileOf("buffer")
                                                                     ELSE NoFile, writeOk)],
              err |-> IF writeOk THEN "ok" ELSE "IOError",
              enc |-> NoAttempts]

\* Video.from_path; ext: the source's suffix without its dot
VideoFromPath(v, ext) ==
    LET v0 == [v EXCEPT !.path.calls = @ + 1]
        v1 == [v0 EXCEPT !.format = ext]
    IN  IF PathSaveEnter(v0.path) # "ok"
        THEN [obj |-> v0, err |-> PathSaveEnter(v0.path), enc |-> NoAttempts]
        ELSE [obj |-> [v1 EXCEPT !.path = PathSaveExit(@, FileOf("source"), TRUE)],
              err |-> IF ext \in SUPPORTED_FORMATS THEN "ok" ELSE "AssertionError",
              enc |-> NoAttempts]

\* Video.from_numpy
VideoFromNumpy(v, shape, format, outcomes) ==
    LET fmt == Lower(IF format = None \/ format = "" THEN VIDEO_DEFAULT_FORMAT ELSE format)
        v1 == [v EXCEPT !.format = fmt, !.path.calls = @ + 1]
        array == PrepareData(shape)
        enc == Encode(fmt, outcomes)
    IN  IF PathSaveEnter(v1.path) # "ok"
        THEN [obj |-> v1, err |-> PathSaveEnter(v1.path), enc |-> NoAttempts]
        ELSE IF array.err # "ok"
        THEN [obj |-> [v1 EXCEPT !.path = PathSaveExit(@, NoFile, FALSE)],
              err |-> array.err, enc |-> NoAttempts]
        ELSE [obj |-> [v1 EXCEPT !.path = PathSaveExit(@, IF enc.err = "ok" THEN FileOf("clip")
                                                                       ELSE NoFile,
                                                       enc.err = "ok")],
              err |-> enc.err, enc |-> enc]

\* Video.from_tensorflow
VideoFromTensorflow(v, shape, format, outcomes) == VideoFromNumpy(v, shape, format, outcomes)

\* Video.from_torch
VideoFromTorch(v, shape, format, outcomes) == VideoFromNumpy(v, shape, format, outcomes)

\* Video.__init__; in: [kind, ext, shape, writeOk, outcomes]
VideoInit(in, caption, format) ==
    LET r == CASE in.kind = "path" -> VideoFromPath(NewVideo, in.ext)
               [] in.kind = "buffer" -> VideoFromBuffer(NewVideo, format, in.writeOk)
               [] in.kind = "ndarray" -> VideoFromNumpy(NewVideo, in.shape, format, in.outcomes)
               [] in.kind = "torch" -> VideoFromTorch(NewVideo, in.shape, format, in.outcomes)
               [] in.kind = "tf" -> VideoFromTensorflow(NewVideo, in.shape, format, in.outcomes)
               [] OTHER -> [obj |-> NewVideo, err |-> "ValueError", enc |-> NoAttempts]
    IN  IF r.err = "ok"
        THEN [obj |-> [r.obj EXCEPT !.state = "constructed", !.caption = caption],
              err |-> "ok", enc |-> r.enc]
        ELSE [obj |-> [r.obj EXCEPT !.state = "failed"], err |-> r.err, enc |-> r.enc]

\* Video.bind_to_run
VideoBindToRun(v, run) == MediaBindToRun(v, run)

----------------------------------------------------------------------------
(* The Video under its callers                                             *)

Outcomes == {"ok", "TypeError", "IOError"}
NoOutcomes == <<"ok", "ok", "ok">>
ExtInputs == {"mp4", "gif", "avi", "MP4", ""}
FormatInputs == {None, "", "MP4", "gif", "avi"}
CaptionInputs == {None, "cat"}
VideoShapes == {<<1, 1, 1>>, <<1, 1, 1, 1>>, <<3, 1, 1, 1, 1>>}

VideoInputs ==
    {[kind |-> "path", ext |-> e, shape |-> <<>>, writeOk |-> TRUE, outcomes |-> NoOutcomes] :
        e \in ExtInputs}
    \cup {[kind |-> "buffer", ext |-> "", shape |-> <<>>, writeOk |-> w,
           outcomes |-> NoOutcomes] : w \in BOOLEAN}
    \cup {[kind |-> k, ext |-> "", shape |-> sh, writeOk |-> TRUE, outcomes |-> o] :
            k \in {"ndarray", "torch", "tf"}, sh \in VideoShapes, o \in [1..3 -> Outcomes]}
    \cup {[kind |-> "other", ext |-> "", shape |-> <<>>, writeOk |-> TRUE,
           outcomes |-> NoOutcomes]}

NoCall == [op |-> "none", err |-> "ok", ret |-> NoDesc]

InitVideo ==
    /\ video = NewVideo
    /\ vlog = [in |-> [kind |-> "none"], format |-> None, err |-> "none",
               enc |-> NoAttempts, last |-> NoCall]
    /\ table = Idle /\ nested = Idle /\ tlog = Idle /\ tdesc = Idle
    /\ joined = Idle /\ jlog = Idle /\ vseq = Idle /\ slog = Idle /\ prep = Idle

VConstruct(in, caption, format) ==
    /\ video.state = "new"
    /\ LET r == VideoInit(in, caption, format)
       IN  /\ video' = r.obj
           /\ vlog' = [in |-> in, format |-> format, err |-> r.err, enc |-> r.enc,
                       last |-> NoCall]
    /\ UNCHANGED <<table, nested, tlog, tdesc, joined, jlog, vseq, slog, prep>>

VBindToRun(run) ==
    /\ video.state = "constructed"
    /\ video' = VideoBindToRun(video, run)
    /\ vlog' = [vlog EXCEPT !.last = [op |-> "bind_to_run", err |-> "ok", ret |-> NoDesc]]
    /\ UNCHANGED <<table, nested, tlog, tdesc, joined, jlog, vseq, slog, prep>>

VBindToArtifact(artifact) ==
    /\ video.state = "constructed"
    /\ LET r == VideoBindToArtifact(video, artifact)
       IN  /\ video' = r.obj
           /\ vlog' = [vlog EXCEPT !.last = [op |-> "bind_to_artifact", err |-> "ok",
                                             ret |-> r.ret]]
    /\ UNCHANGED <<table, nested, tlog, tdesc, joined, jlog, vseq, slog, prep>>

VToJson ==
    /\ video.state = "constructed"
    /\ LET r == VideoToJson(video)
       IN  vlog' = [vlog EXCEPT !.last = [op |-> "to_json", err |-> r.err, ret |-> r.ret]]
    /\ UNCHANGED <<video, table, nested, tlog, tdesc, joined, jlog, vseq, slog, prep>>

NextVideo ==
    \/ \E in \in VideoInputs, caption \in CaptionInputs, format \in FormatInputs :
          VConstruct(in, caption, format)
    \/ \E run \in Runs : VBindToRun(run)
    \/ \E artifact \in Artifacts : VBindToArtifact(artifact)
    \/ VToJson

SpecVideo == InitVideo /\ [][NextVideo]_vars

\* C3: a constructed Video has one of the formats mp4, webm, gif, ogg, and a
\* construction asking for another extension or format fails before the path
\* slot has been used.
C3_SupportedFormatsOnly ==
    /\ video.state = "constructed" => video.format \in SUPPORTED_FORMATS
    /\ (video.state # "new" /\ video.format \notin SUPPORTED_FORMATS)
          => (video.state = "failed" /\ video.path.calls = 0)

\* C10: the encoder call shapes are tried in their order, a later shape only
\* after the one before it failed with a TypeError, none after the first
\* success, an error other than TypeError ends the attempts at once, and when
\* every shape fails the caller gets the failure of the last one.
C10_EncoderFallback ==
    vlog.enc.err # "none" =>
        LET a == vlog.enc.attempts
            o == vlog.in.outcomes
            calls == EncoderCalls(video.format)
        IN  /\ Len(a) \in 1..3
            /\ \A i \in 1..Len(a) : a[i] = calls[i]
            /\ \A i \in 2..Len(a) : o[i - 1] = "TypeError"
            /\ \A i \in 1..(Len(a) - 1) : o[i] # "ok"
            /\ \A i \in 1..3 :
                  (o[i] # "TypeError" /\ \A k \in 1..(i - 1) : o[k] = "TypeError")
                     => (Len(a) = i /\ vlog.err = o[i])
            /\ (\A i \in 1..3 : o[i] # "ok" /\ Len(a) = 3) => vlog.err = o[3]
            /\ (\A i \in 1..3 : o[i] = "TypeError") => (Len(a) = 3 /\ vlog.err = "TypeError")
            /\ video.state = "constructed" <=> vlog.err = "ok"

C10_Witness ==
    /\ vlog.in.kind = "ndarray"
    /\ vlog.in.outcomes = <<"TypeError", "TypeError", "IOError">>
    /\ Len(vlog.enc.attempts) = 3
    /\ vlog.err = "IOError"

----------------------------------------------------------------------------
(* media.py: MediaSequence, and video.py: VideoSequence                    *)

MaxItems == 3       \* elements of a VideoSequence

SEQ_OBJ_TYPE == "videos"
SEQ_OBJ_ARTIFACT_TYPE == "videos"

\* MediaSequence.__init__: the items in the order given
MediaSequenceInit(items) == [items |-> items]

RECURSIVE BindEach(_, _, _, _)
\* the elements from index i on bound one after the other; order lists the
\* indexes in the order they were bound
BindEach(items, artifact, i, order) ==
    IF i > Len(items) THEN [items |-> items, order |-> order]
    ELSE BindEach([items EXCEPT ![i] = VideoBindToArtifact(@, artifact).obj],
                  artifact, i + 1, Append(order, i))

\* MediaSequence.bind_to_artifact: binds every element, first to last
MediaSequenceBindToArtifact(sq, artifact) ==
    LET r == BindEach(sq.items, artifact, 1, <<>>)
    IN  [obj |-> [sq EXCEPT !.items = r.items], order |-> r.order]

\* VideoSequence.__init__
VideoSequenceInit(items) == MediaSequenceInit(items)

\* VideoSequence.bind_to_artifact
VideoSequenceBindToArtifact(sq, artifact) ==
    LET r == MediaSequenceBindToArtifact(sq, artifact)
    IN  [obj |-> r.obj, order |-> r.order, ret |-> [_type |-> SEQ_OBJ_ARTIFACT_TYPE]]

\* to_json listing the elements last to first
VideoSequenceToJsonReversed(sq) ==
    LET n == Len(sq.items)
        items == [i \in 1..n |-> VideoToJson(sq.items[n + 1 - i])]
    IN  [err |-> "ok",
         ret |-> [_type |-> SEQ_OBJ_TYPE, count |-> Len(items),
                  videos |-> [i \in 1..n |-> items[i].ret]]]

\* VideoSequence.to_json
VideoSequenceToJson(sq) ==
    LET items == [i \in 1..Len(sq.items) |-> VideoToJson(sq.items[i])]
    IN  IF \E i \in 1..Len(items) : items[i].err # "ok"
        THEN [err |-> items[CHOOSE i \in 1..Len(items) :
                                /\ items[i].err # "ok"
                                /\ \A k \in 1..(i - 1) : items[k].err = "ok"].err,
              ret |-> NoDesc]
        ELSE [err |-> "ok",
              ret |-> [_type |-> SEQ_OBJ_TYPE, count |-> Len(items),
                       videos |-> [i \in 1..Len(items) |-> items[i].ret]]]

\* the Videos a sequence is built from: constructed from a path and from a buffer
VideoPool ==
    {VideoInit([kind |-> "path", ext |-> "mp4", shape |-> <<>>, writeOk |-> TRUE,
                outcomes |-> NoOutcomes], "first", None).obj,
     VideoInit([kind |-> "buffer", ext |-> "", shape |-> <<>>, writeOk |-> TRUE,
                outcomes |-> NoOutcomes], "second", None).obj}

NoSeqCall == [op |-> "none", arg |-> None, err |-> "ok", ret |-> NoDesc, order |-> <<>>,
              bound |-> FALSE]

InitSeq ==
    /\ \E items \in SeqsUpTo(VideoPool, MaxItems) :
          vseq = [given |-> items, obj |-> VideoSequenceInit(items)]
    /\ slog = NoSeqCall
    /\ table = Idle /\ nested = Idle /\ tlog = Idle /\ tdesc = Idle
    /\ joined = Idle /\ jlog = Idle /\ video = Idle /\ vlog = Idle /\ prep = Idle

SBindToArtifact(artifact) ==
    /\ LET r == VideoSequenceBindToArtifact(vseq.obj, artifact)
       IN  /\ vseq' = [vseq EXCEPT !.obj = r.obj]
           /\ slog' = [op |-> "bind_to_artifact", arg |-> artifact, err |-> "ok",
                       ret |-> r.ret, order |-> r.order, bound |-> TRUE]
    /\ UNCHANGED <<table, nested, tlog, tdesc, joined, jlog, video, vlog, prep>>

SToJson ==
    /\ LET r == VideoSequenceToJson(vseq.obj)
       IN  slog' = [slog EXCEPT !.op = "to_json", !.arg = None, !.err = r.err,
                                !.ret = r.ret, !.order = <<>>]
    /\ UNCHANGED <<vseq, table, nested, tlog, tdesc, joined, jlog, video, vlog, prep>>

SItemBindToRun(i, run) ==
    /\ i \in 1..Len(vseq.obj.items)
    /\ vseq' = [vseq EXCEPT !.obj.items[i] = VideoBindToRun(@, run)]
    /\ slog' = [slog EXCEPT !.op = "item.bind_to_run", !.arg = run, !.err = "ok",
                            !.ret = NoDesc, !.order = <<>>]
    /\ UNCHANGED <<table, nested, tlog, tdesc, joined, jlog, video, vlog, prep>>

NextSeq ==
    \/ \E artifact \in Artifacts : SBindToArtifact(artifact)
    \/ SToJson
    \/ \E i \in 1..MaxItems, run \in Runs : SItemBindToRun(i, run)

SpecSeq == InitSeq /\ [][NextSeq]_vars

\* C7: bind_to_artifact binds every element of a VideoSequence to the one
\* artifact, first to last; a to_json after it returns _type, count and videos
\* with count the number of elements given and videos[i] the to_json of the
\* i-th element given.
C7_SequenceOrder ==
    LET n == Len(vseq.given)
    IN  /\ slog.op = "bind_to_artifact" =>
              /\ \A i \in 1..n : vseq.obj.items[i].artifact = slog.arg
              /\ slog.order = [i \in 1..n |-> i]
        /\ (slog.op = "to_json" /\ slog.bound) =>
              /\ slog.err = "ok"
              /\ DOMAIN slog.ret = {"_type", "count", "videos"}
              /\ slog.ret.count = n
              /\ Len(slog.ret.videos) = n
              /\ \A i \in 1..n :
                    /\ slog.ret.videos[i] = VideoToJson(vseq.obj.items[i]).ret
                    /\ slog.ret.videos[i].caption = vseq.given[i].caption
                    /\ slog.ret.videos[i].path = vseq.given[i].path.file

C7_Witness ==
    /\ slog.op = "to_json" /\ slog.bound
    /\ Len(vseq.given) = 3
    /\ vseq.given[1].caption # vseq.given[3].caption
    /\ slog.ret.count = 3

====
